---- MODULE Spec2Model ----
(***************************************************************************)
(* A model of the Pathing module of Overmind                               *)
(* (src/src/overlords/defense/rangedDefense.ts, lines 65-777): the search  *)
(* wrapper findPath with its retry, the route restrictor findRoute, the    *)
(* per-room cost matrices and their per-tick caches, the distance memo     *)
(* tables and isReachable.                                                 *)
(*                                                                         *)
(* An optional value of the TypeScript source (a field that may be         *)
(* undefined) is a sequence of length at most one: << >> is undefined and  *)
(* <<v>> is the value v.                                                   *)
(***************************************************************************)
EXTENDS Integers, Sequences, FiniteSets, TLC

\* ------------------------------------------------------------------ bounds

\* Room names are the coordinates 0..MaxRoom of a corridor of rooms.
MaxRoom == 13

\* How many findPath calls are made with one and the same options object.
MaxReuse == 2

\* The longest path handed to serializePath.
MaxPathLen == 3

\* The side of a room's tile grid (50 in the game).
GridSize == 5

\* ------------------------------------------------------- program constants

DEFAULT_MAXOPS == 20000

\* ---------------------------------------------------------------- options

Undef == << >>

Some(v) == <<v>>

\* JavaScript truthiness of an optional boolean / an optional number.
TruthyB(opt) == opt # Undef /\ opt[1]

TruthyN(opt) == opt # Undef /\ opt[1] # 0

\* The MoveOptions object {}: every field undefined.
NoOptions ==
    [ ignoreCreeps |-> Undef, maxOps |-> Undef, range |-> Undef,
      terrainCosts |-> Undef, movingTarget |-> Undef, route |-> Undef,
      useFindRoute |-> Undef, direct |-> Undef, ensurePath |-> Undef,
      allowHostile |-> Undef, restrictDistance |-> Undef,
      preferHighway |-> Undef, maxRooms |-> Undef, avoidSK |-> Undef,
      ignoreStructures |-> Undef, obstacles |-> Undef,
      modifyRoomCallback |-> Undef ]

\* _.defaults(options, d): every field of d that options leaves undefined.
Defaults(options, d) ==
    [k \in DOMAIN options |->
        IF k \in DOMAIN d /\ options[k] = Undef THEN Some(d[k]) ELSE options[k]]

\* ------------------------------------------------------------------ world

RoomNames == 0..MaxRoom

VARIABLES
    avoid,        \* Memory.rooms[r].avoid: the set of rooms flagged avoid
    routable,     \* whether the map's exits connect the corridor's rooms
    oracle,       \* PathFinder.search: search key -> [incomplete, path]
    origin,       \* the start position of the findPath calls
    destination,  \* the goal position of the findPath calls
    callLog,      \* the findPath calls made with the caller's options object
    distances,          \* Memory.pathing.distances[name1][name2]
    weightedDistances,  \* Memory.pathing.weightedDistances[name1][name2]
    memoCall,           \* the last distance / weightedDistance call, if any
    reachCall,    \* the last isReachable call, if any
    matRoom,      \* the observed room whose cost matrices are built
    cache,        \* the room's _defaultMatrix, _directMatrix, ... slots: the
                  \* matrix held and how many objects the slot has held
    matRet,       \* a record of the last operation and what it returned, if any
    expansionData, \* Memory.rooms[roomName].expansionData of each room
    openTiles,    \* the tiles of the 50 x 50 room that are no wall: those
                  \* at least `from` away from the centre, and `tiles`
    serialized    \* the arguments of the serializePath call and, once it
                  \* was made, the string it returned

pathVars ==
    <<avoid, expansionData, openTiles, serialized, routable, oracle, origin,
      destination, callLog>>

memoVars == <<distances, weightedDistances, memoCall>>

matVars == <<matRoom, cache, matRet>>

vars == <<pathVars, memoVars, reachCall, matVars>>

\* Game.map.getRoomLinearDistance on the corridor.
LinearDistance(a, b) == IF a >= b THEN a - b ELSE b - a

ROOMTYPE_ALLEY == "ALLEY"

\* Cartographer.roomType: highways lie on the coordinates divisible by 10,
\* source keeper rooms on 4 and 6, the core on 5.
RoomType(roomName) ==
    CASE roomName % 10 = 0 -> ROOMTYPE_ALLEY
      [] roomName % 10 \in {4, 6} -> "SK"
      [] roomName % 10 = 5 -> "CORE"
      [] OTHER -> "CONTROLLER"

\* A shouldAvoid that knows of no avoid flag.
ShouldAvoidNever(roomName) == roomName \in {}

ShouldAvoid(roomName) == roomName \in avoid

\* A room that is open from distance k of the centre on, walls inside.
OpenFrom(k) == [from |-> k, tiles |-> {}]

\* No room has expansionData in its memory.
NoExpansionData == [r \in RoomNames |-> Undef]

\* updateRoomStatus(room) on Memory.rooms: the avoid flags and the
\* expansionData it leaves.
UpdateRoomStatus(av, exp, room) ==
    IF room.controller = Undef THEN [avoid |-> av, expansionData |-> exp]
    ELSE IF room.controller[1].owner /\ ~room.controller[1].my /\ room.towers > 0
    THEN [avoid |-> av \cup {room.name}, expansionData |-> exp]
    ELSE [avoid |-> av \ {room.name},
          expansionData |-> IF exp[room.name] = Some(FALSE)
                            THEN [exp EXCEPT ![room.name] = Undef]
                            ELSE exp]

\* -------------------------------------------------------------- findRoute

Infinite == [inf |-> TRUE, tenths |-> 0]

Finite(t) == [inf |-> FALSE, tenths |-> t]

\* The claimed radius, max(linearDistance + 10, override): what a slip in
\* line 526 would compute.
RestrictDistanceMax(options, linearDistance) ==
    IF options.restrictDistance # Undef
           /\ options.restrictDistance[1] > linearDistance + 10
    THEN options.restrictDistance[1]
    ELSE linearDistance + 10

\* let restrictDistance = options.restrictDistance || linearDistance + 10
RestrictDistance(options, linearDistance) ==
    IF TruthyN(options.restrictDistance)
    THEN options.restrictDistance[1]
    ELSE linearDistance + 10

\* The highway bias in tenths: 1, or 2.5 with options.preferHighway.
HighwayBias(options) == IF TruthyB(options.preferHighway) THEN 25 ELSE 10

\* The routeCallback handed to Game.map.findRoute.
RouteCallback(org, dst, options, roomName) ==
    LET rangeToRoom == LinearDistance(org, roomName)
        restrictDistance == RestrictDistance(options, LinearDistance(org, dst))
    IN  IF rangeToRoom > restrictDistance THEN Infinite
        ELSE IF ~TruthyB(options.allowHostile) /\ ShouldAvoid(roomName)
                    /\ roomName # dst /\ roomName # org THEN Infinite
        ELSE IF TruthyB(options.preferHighway)
                    /\ RoomType(roomName) = ROOMTYPE_ALLEY THEN Finite(10)
        ELSE Finite(HighwayBias(options))

\* The rooms a route from org to dst enters on the corridor, in order
\* (the origin is not entered, the destination is).
RouteRooms(org, dst) ==
    IF org = dst THEN << >>
    ELSE [i \in 1..LinearDistance(org, dst) |->
              IF dst > org THEN org + i ELSE org - i]

\* Game.map.findRoute: the route as an array, or no path (undefined here)
\* when the exits do not connect or a room on the way costs +infinity.
MapFindRoute(org, dst, options) ==
    LET route == RouteRooms(org, dst)
    IN  IF route # << >>
            /\ (~routable
                \/ \E i \in DOMAIN route :
                       RouteCallback(org, dst, options, route[i]).inf)
        THEN Undef
        ELSE Some(route)

\* A findRoute that hands back the set it started from, the two endpoints,
\* when no route is found.
FindRoutePartial(org, dst, options) ==
    LET ret == MapFindRoute(org, dst, options)
    IN  IF ret = Undef THEN Some({org, dst})
        ELSE Some({org, dst} \cup {ret[1][i] : i \in DOMAIN ret[1]})

\* findRoute: the set of allowed rooms, or undefined.
FindRoute(org, dst, options) ==
    LET ret == MapFindRoute(org, dst, options)
    IN  IF ret = Undef THEN Undef
        ELSE Some({org, dst} \cup {ret[1][i] : i \in DOMAIN ret[1]})

\* --------------------------------------------------------------- findPath

\* What PathFinder.search is told apart by in this model: the endpoints,
\* the rooms the room callback allows (undefined: every room), and the
\* swamp cost.
SearchKey(org, dst, allowedRooms, options) ==
    [from |-> org, to |-> dst, allowed |-> allowedRooms,
     swampCost |-> options.terrainCosts[1].swampCost]

\* PathFinder.search(origin, {pos: destination, range}, {..., roomCallback}).
Search(org, dst, allowedRooms, options) ==
    oracle[SearchKey(org, dst, allowedRooms, options)]

\* The test the claimed policy states: explicitly requested or far apart.
UsesFindRouteWhateverFlag(options, roomDistance) ==
    options.route = Undef
    /\ (TruthyB(options.useFindRoute) \/ roomDistance > 2)

\* !allowedRooms && (options.useFindRoute ||
\*                   (options.useFindRoute == undefined && roomDistance > 2))
UsesFindRoute(options, roomDistance) ==
    options.route = Undef
    /\ (TruthyB(options.useFindRoute)
        \/ (options.useFindRoute = Undef /\ roomDistance > 2))

\* A retry that forgets to ask for options.ensurePath.
ShouldRetryNoEnsure(ret, options, roomDistance) ==
    ret.incomplete /\ options.useFindRoute = Undef /\ roomDistance <= 2

\* A findPath without its retry.
ShouldRetryNever(ret, options, roomDistance) ==
    ret.incomplete /\ roomDistance < 0

\* ret.incomplete && options.ensurePath, options.useFindRoute == undefined
\* and roomDistance <= 2: the second attempt is made.
ShouldRetry(ret, options, roomDistance) ==
    ret.incomplete /\ TruthyB(options.ensurePath)
    /\ options.useFindRoute = Undef /\ roomDistance <= 2

RECURSIVE FindPath(_, _, _)

\* findPath(origin, destination, options): the result, the options object
\* as the call leaves it, and one entry per findPath invocation (the call
\* and its recursive second attempt), each with the options it searched
\* with, its findRoute call (undefined: none made), the allowed rooms it
\* handed to the room callback and the oracle's answer.
FindPath(org, dst, options) ==
    LET o1 == Defaults(options,
                  [ignoreCreeps |-> TRUE, maxOps |-> DEFAULT_MAXOPS, range |-> 1,
                   terrainCosts |-> [plainCost |-> 1, swampCost |-> 5]])
        o2 == IF TruthyB(o1.movingTarget) THEN [o1 EXCEPT !.range = Some(0)]
              ELSE o1
        roomDistance == LinearDistance(org.roomName, dst.roomName)
        useRoute == UsesFindRoute(o2, roomDistance)
        allowedRooms == IF useRoute THEN FindRoute(org.roomName, dst.roomName, o2)
                        ELSE o2.route
        routeCall == IF useRoute
                     THEN Some([origin |-> org.roomName,
                                destination |-> dst.roomName, options |-> o2])
                     ELSE Undef
        o3 == IF TruthyB(o2.direct)
              THEN [o2 EXCEPT !.terrainCosts =
                                  Some([plainCost |-> 1, swampCost |-> 1])]
              ELSE o2
        ret == Search(org, dst, allowedRooms, o3)
        search == [options |-> o3, roomDistance |-> roomDistance,
                   routeCall |-> routeCall, allowedRooms |-> allowedRooms,
                   ret |-> ret]
    IN  IF ShouldRetry(ret, o3, roomDistance)
        THEN LET second == FindPath(org, dst,
                                    [o3 EXCEPT !.useFindRoute = Some(TRUE)])
             IN  [ret |-> second.ret, options |-> second.options,
                  searches |-> <<search>> \o second.searches]
        ELSE [ret |-> ret, options |-> o3, searches |-> <<search>>]

\* ----------------------------------------------------------- CostMatrix

IMPASSABLE == 255

SOFT_OBSTACLE == 254

\* The indices of a CostMatrix's bytes: tile (x, y) is byte x * GridSize + y.
Tiles == 0..(GridSize * GridSize - 1)

Index(x, y) == x * GridSize + y

\* new PathFinder.CostMatrix()
NewMatrix == [i \in Tiles |-> 0]

\* A cost as CostMatrix.set stores it: a byte, clamped to 0..255.
Clamp(val) == IF val < 0 THEN 0 ELSE IF val > IMPASSABLE THEN IMPASSABLE ELSE val

\* matrix.set(x, y, val); a byte outside the matrix is not written.
MatrixSet(m, x, y, val) ==
    IF Index(x, y) \in Tiles THEN [m EXCEPT ![Index(x, y)] = Clamp(val)] ELSE m

\* matrix.get(x, y); undefined for a byte outside the matrix.
MatrixGet(m, x, y) ==
    IF Index(x, y) \in Tiles THEN Some(m[Index(x, y)]) ELSE Undef

\* ------------------------------------------------------------ isReachable

\* hasPos(obstacle) ? obstacle.pos : obstacle
ObstaclePos(obstacle) ==
    IF "pos" \in DOMAIN obstacle THEN obstacle.pos ELSE obstacle

RECURSIVE ObstacleMatrix(_, _)

\* _.forEach(obstacles, obstacle => matrix.set(x, y, 0xfe)) from index i on.
ObstacleMatrix(obstacles, i) ==
    IF i > Len(obstacles) THEN NewMatrix
    ELSE MatrixSet(ObstacleMatrix(obstacles, i + 1),
                   ObstaclePos(obstacles[i]).x, ObstaclePos(obstacles[i]).y,
                   SOFT_OBSTACLE)

\* A check that only looks for hard, impassable tiles on the path.
PathBlockedHard(matrix, path) ==
    \E i \in DOMAIN path :
        MatrixGet(matrix, path[i].x, path[i].y)[1] >= IMPASSABLE

\* for (let pos of ret.path) if (matrix.get(pos.x, pos.y) > 100) return false
PathBlocked(matrix, path) ==
    \E i \in DOMAIN path : MatrixGet(matrix, path[i].x, path[i].y)[1] > 100

\* isReachable(startPos, endPos, obstacles, options), given what the oracle
\* answers to its single-room search: the result, and whether it searched.
IsReachable(startPos, endPos, obstacles, options, answer) ==
    LET o == Defaults(options, [ignoreCreeps |-> TRUE, range |-> 1,
                                maxOps |-> 1000, ensurePath |-> FALSE])
    IN  IF startPos.roomName # endPos.roomName
        THEN [result |-> FALSE, searched |-> FALSE, options |-> o]
        ELSE [result |-> /\ ~answer.incomplete
                         /\ ~PathBlocked(ObstacleMatrix(obstacles, 1),
                                         answer.path),
              searched |-> TRUE, options |-> o]

\* ------------------------------------------------- cost matrices of a room

ROOMTYPE_SOURCEKEEPER == "SK"

Slots == {"default", "direct", "creep", "kiting", "sk"}

\* room._defaultMatrix, ... all unset.
EmptyCache == [s \in Slots |-> Undef]

\* A matrix object in hand: its bytes, and the cache slots that hold this
\* very object (none: the object is the caller's own).
Obj(m, slots) == [m |-> m, slots |-> slots]

\* The heap while an operation runs is the cache and the object in hand: a
\* write to the object in hand is a write to every slot that holds it.

\* matrix.clone(): a new object with the same bytes.
CloneObj(st) == [cache |-> st.cache, obj |-> Obj(st.obj.m, {})]

\* new PathFinder.CostMatrix()
NewObj(c) == [cache |-> c, obj |-> Obj(NewMatrix, {})]

\* How many objects were assigned to room._xMatrix so far.
Assigned(c, slot) == IF c[slot] = Undef THEN 0 ELSE c[slot][2]

\* room._xMatrix = matrix
StoreObj(st, slot) ==
    [cache |-> [st.cache EXCEPT
                   ![slot] = <<st.obj.m, Assigned(st.cache, slot) + 1>>],
     obj |-> Obj(st.obj.m, st.obj.slots \cup {slot})]

\* return room._xMatrix
LoadObj(c, slot) == [cache |-> c, obj |-> Obj(c[slot][1], {slot})]

\* The object in hand after its bytes became m2, in every slot holding it.
WriteObj(st, m2) ==
    [cache |-> [s \in Slots |->
                   IF s \in st.obj.slots THEN <<m2, st.cache[s][2]>>
                   ELSE st.cache[s]],
     obj |-> Obj(m2, st.obj.slots)]

\* matrix.set(x, y, val) for each <<x, y, val>> of writes, in order: a byte
\* ends up with the last value written to it.
SetEach(st, writes) ==
    WriteObj(st, [t \in Tiles |->
                     LET hits == {i \in DOMAIN writes :
                                     Index(writes[i][1], writes[i][2]) = t}
                     IN  IF hits = {} THEN st.obj.m[t]
                         ELSE Clamp(writes[CHOOSE i \in hits :
                                               \A j \in hits : j <= i][3])])

\* The double loop dx = -r..r, dy = -r..r makes Steps(r) steps; step j has
\* the offset Offset(r, j).
Side(r) == 2 * r + 1

Steps(r) == Side(r) * Side(r)

Offset(r, j) == <<((j - 1) \div Side(r)) - r, ((j - 1) % Side(r)) - r>>

Abs(n) == IF n < 0 THEN -n ELSE n

Max(a, b) == IF a >= b THEN a ELSE b

\* The writes that mark each position of a sequence impassable.
BlockWrites(things) == [i \in DOMAIN things |-> <<things[i].x, things[i].y, IMPASSABLE>>]

\* A getDefaultMatrix that writes each structure as it is enumerated, roads
\* and blockers alike.
GetDefaultMatrixInOrder(c, room) ==
    IF c["default"] # Undef THEN LoadObj(c, "default")
    ELSE LET marked == SelectSeq(room.structures,
                                 LAMBDA s : s.structureType = "road"
                                            \/ ~s.isWalkable)
             sites == SelectSeq(room.sites, LAMBDA s : s.my /\ ~s.isWalkable)
             writes == [i \in DOMAIN marked |->
                           <<marked[i].x, marked[i].y,
                             IF marked[i].structureType = "road"
                             THEN 1 ELSE IMPASSABLE>>]
                           \o BlockWrites(sites)
         IN  StoreObj(SetEach(NewObj(c), writes), "default")

\* getDefaultMatrix(room)
GetDefaultMatrix(c, room) ==
    IF c["default"] # Undef THEN LoadObj(c, "default")
    ELSE LET roads == SelectSeq(room.structures,
                                LAMBDA s : s.structureType = "road")
             impassibleStructures ==
                 SelectSeq(room.structures,
                           LAMBDA s : s.structureType # "road" /\ ~s.isWalkable)
             sites == SelectSeq(room.sites, LAMBDA s : s.my /\ ~s.isWalkable)
             writes == [i \in DOMAIN roads |-> <<roads[i].x, roads[i].y, 1>>]
                           \o BlockWrites(impassibleStructures)
                           \o BlockWrites(sites)
         IN  StoreObj(SetEach(NewObj(c), writes), "default")

\* getDirectMatrix(room)
GetDirectMatrix(c, room) ==
    IF c["direct"] # Undef THEN LoadObj(c, "direct")
    ELSE LET impassibleStructures ==
                 SelectSeq(room.structures, LAMBDA s : ~s.isWalkable)
             sites == SelectSeq(room.sites, LAMBDA s : s.my /\ ~s.isWalkable)
             writes == BlockWrites(impassibleStructures) \o BlockWrites(sites)
         IN  StoreObj(SetEach(NewObj(c), writes), "direct")

\* A getCreepMatrix that does not look at room._creepMatrix before it builds.
GetCreepMatrixRebuild(c, room) ==
    StoreObj(SetEach(CloneObj(GetDefaultMatrix(c, room)),
                     BlockWrites(room.creeps)),
             "creep")

\* getCreepMatrix(room)
GetCreepMatrix(c, room) ==
    IF c["creep"] # Undef THEN LoadObj(c, "creep")
    ELSE StoreObj(SetEach(CloneObj(GetDefaultMatrix(c, room)),
                          BlockWrites(room.creeps)),
                  "creep")

\* A penalty taken off the tile's cost instead of added to it.
KitingCostDiscount(cost, dx, dy) == cost - (40 - (10 * Max(Abs(dx), Abs(dy))))

\* A penalty that replaces the tile's cost instead of adding to it.
KitingCostOverwrite(cost, dx, dy) == 40 - (10 * Max(Abs(dx), Abs(dy)))

\* cost += 40 - (10 * Math.max(Math.abs(dx), Math.abs(dy)))
KitingCost(cost, dx, dy) == cost + 40 - (10 * Max(Abs(dx), Abs(dy)))

\* The steps of getKitingMatrix's loops, in order: for each creep, for each
\* offset, the tile touched and the offset.
KitingSteps(avoidCreeps) ==
    [k \in 1..(Len(avoidCreeps) * Steps(3)) |->
        LET creep == avoidCreeps[((k - 1) \div Steps(3)) + 1]
            d == Offset(3, ((k - 1) % Steps(3)) + 1)
        IN  [x |-> creep.x + d[1], y |-> creep.y + d[2], dx |-> d[1], dy |-> d[2]]]

RECURSIVE KitingAdd(_, _, _)

\* A byte after the steps that touch it, from number i on: each reads the
\* byte, adds its penalty and writes the sum back.
KitingAdd(cost, steps, i) ==
    IF i > Len(steps) THEN cost
    ELSE KitingAdd(Clamp(KitingCost(cost, steps[i].dx, steps[i].dy)),
                   steps, i + 1)

\* getKitingMatrix's loops over the matrix in hand. A step outside the
\* matrix reads undefined and writes nothing.
KitingLoop(st, avoidCreeps) ==
    LET steps == KitingSteps(avoidCreeps)
    IN  WriteObj(st, [t \in Tiles |->
                         KitingAdd(st.obj.m[t],
                                   SelectSeq(steps,
                                             LAMBDA h : Index(h.x, h.y) = t),
                                   1)])

\* room.hostiles with an active ATTACK or RANGED_ATTACK part.
AvoidCreeps(room) ==
    SelectSeq(room.creeps, LAMBDA c : ~c.my /\ (c.attack > 0 \/ c.ranged > 0))

\* getKitingMatrix(room)
GetKitingMatrix(c, room) ==
    IF c["kiting"] # Undef THEN LoadObj(c, "kiting")
    ELSE StoreObj(KitingLoop(CloneObj(GetCreepMatrix(c, room)),
                             AvoidCreeps(room)),
                  "kiting")

\* room.keeperLairs
KeeperLairs(room) ==
    SelectSeq(room.structures, LAMBDA s : s.structureType = "keeperLair")

\* The writes of getSkMatrix's loops: every offset within avoidRange = 5 of
\* every lair.
LairWrites(lairs) ==
    [k \in 1..(Len(lairs) * Steps(5)) |->
        LET lair == lairs[((k - 1) \div Steps(5)) + 1]
            d == Offset(5, ((k - 1) % Steps(5)) + 1)
        IN  <<lair.x + d[1], lair.y + d[2], IMPASSABLE>>]

\* getSkMatrix(room)
GetSkMatrix(c, room) ==
    IF RoomType(room.name) # ROOMTYPE_SOURCEKEEPER THEN GetDefaultMatrix(c, room)
    ELSE IF c["sk"] # Undef THEN LoadObj(c, "sk")
    ELSE StoreObj(SetEach(CloneObj(GetDefaultMatrix(c, room)),
                          LairWrites(KeeperLairs(room))),
                  "sk")

\* The obstacles of options that lie in the room, as writes.
ObstacleWrites(room, obstacles) ==
    BlockWrites(SelectSeq(obstacles, LAMBDA o : o.roomName = room.name))

\* The obstacles written into the matrix in hand itself, with no clone.
RegisterObstaclesInPlace(st, room, options) ==
    IF options.obstacles # Undef /\ Len(options.obstacles[1]) > 0
    THEN SetEach(st, ObstacleWrites(room, options.obstacles[1]))
    ELSE st

\* if (options.obstacles && options.obstacles.length > 0) { clone, set }
RegisterObstacles(st, room, options) ==
    IF options.obstacles # Undef /\ Len(options.obstacles[1]) > 0
    THEN SetEach(CloneObj(st), ObstacleWrites(room, options.obstacles[1]))
    ELSE st

\* The base matrix getCostMatrix picks for the options.
PickMatrix(c, room, options) ==
    IF options.ignoreCreeps = Some(FALSE) THEN GetCreepMatrix(c, room)
    ELSE IF TruthyB(options.avoidSK) THEN GetSkMatrix(c, room)
    ELSE IF TruthyB(options.ignoreStructures) THEN NewObj(c)
    ELSE IF TruthyB(options.direct) THEN GetDirectMatrix(c, room)
    ELSE GetDefaultMatrix(c, room)

\* getCostMatrix(room, options, clone)
GetCostMatrix(c, room, options, clone) ==
    LET st == RegisterObstacles(PickMatrix(c, room, options), room, options)
    IN  IF clone THEN CloneObj(st) ELSE st

\* Game.rooms[roomName]: the observed room, or undefined.
GameRoom(roomName) == IF roomName = matRoom.name THEN Some(matRoom) ELSE Undef

\* options.modifyRoomCallback(room, matrix): a callback <<x, y, val>> sets
\* one tile of the matrix it is handed and returns that matrix.
ModifyRoomCallback(st, callback) == SetEach(st, <<callback>>)

\* roomCallback(roomName, origin, destination, allowedRooms, options):
\* false, true, or a matrix (with the cache it leaves).
RoomCallback(c, roomName, org, dst, allowedRooms, options) ==
    IF allowedRooms # Undef /\ roomName \notin allowedRooms[1]
    THEN [kind |-> "false", cache |-> c, obj |-> Obj(NewMatrix, {})]
    ELSE IF ~TruthyB(options.allowHostile) /\ ShouldAvoid(roomName)
                /\ roomName # org.roomName /\ roomName # dst.roomName
    THEN [kind |-> "false", cache |-> c, obj |-> Obj(NewMatrix, {})]
    ELSE IF GameRoom(roomName) # Undef
    THEN LET st == GetCostMatrix(c, GameRoom(roomName)[1], options, FALSE)
             out == IF options.modifyRoomCallback # Undef
                    THEN ModifyRoomCallback(CloneObj(st),
                                            options.modifyRoomCallback[1])
                    ELSE st
         IN  [kind |-> "matrix", cache |-> out.cache, obj |-> out.obj]
    ELSE [kind |-> "true", cache |-> c, obj |-> Obj(NewMatrix, {})]

\* kitingRoomCallback(roomName)
KitingRoomCallback(c, roomName) ==
    IF GameRoom(roomName) # Undef
    THEN LET st == GetKitingMatrix(c, GameRoom(roomName)[1])
         IN  [kind |-> "matrix", cache |-> st.cache, obj |-> st.obj]
    ELSE [kind |-> "true", cache |-> c, obj |-> Obj(NewMatrix, {})]

\* The room callback of findFleePath for the creep at creepPos.
FleeCallback(c, roomName, creepPos, options) ==
    IF ~TruthyB(options.allowHostile) /\ ShouldAvoid(roomName)
           /\ roomName # creepPos.roomName
    THEN [kind |-> "false", cache |-> c, obj |-> Obj(NewMatrix, {})]
    ELSE IF GameRoom(roomName) # Undef
    THEN LET st == GetCostMatrix(c, GameRoom(roomName)[1], options, FALSE)
             out == IF options.modifyRoomCallback # Undef
                    THEN ModifyRoomCallback(CloneObj(st),
                                            options.modifyRoomCallback[1])
                    ELSE st
         IN  [kind |-> "matrix", cache |-> out.cache, obj |-> out.obj]
    ELSE [kind |-> "true", cache |-> c, obj |-> Obj(NewMatrix, {})]

\* Memory.rooms[roomName].SKlairs: the saved lair coordinates of the source
\* keeper rooms 4 and 6.
SKlairs(roomName) ==
    IF roomName \in {4, 6} THEN Some(<<[x |-> 3, y |-> 3]>>) ELSE Undef

\* getInvisibleSkMatrix(roomName)
GetInvisibleSkMatrix(c, roomName) ==
    IF RoomType(roomName) = ROOMTYPE_SOURCEKEEPER /\ SKlairs(roomName) # Undef
    THEN SetEach(NewObj(c), LairWrites(SKlairs(roomName)[1]))
    ELSE NewObj(c)

\* getCostMatrixForInvisibleRoom(roomName, options, clone)
GetCostMatrixForInvisibleRoom(c, roomName, options, clone) ==
    LET picked == IF TruthyB(options.avoidSK)
                  THEN GetInvisibleSkMatrix(c, roomName)
                  ELSE NewObj(c)
        st == IF options.obstacles # Undef /\ Len(options.obstacles[1]) > 0
              THEN SetEach(CloneObj(picked),
                           BlockWrites(SelectSeq(options.obstacles[1],
                               LAMBDA o : o.roomName = roomName)))
              ELSE picked
    IN  IF clone THEN CloneObj(st) ELSE st

\* ---------------------------------------------------- findPathablePosition

\* The room name of the position returned when no tile is found.
CannotFindPathablePosition == -1

\* Chebyshev distance of a tile from the centre (25, 25).
FromCentre(t) == Max(Abs(t[1] - 25), Abs(t[2] - 25))

\* Whether the tile <<x, y>> is no wall.
IsOpen(t) == FromCentre(t) >= openTiles.from \/ t \in openTiles.tiles

\* Game.map.getTerrainAt(x, y, roomName) for the room of the scenario.
GetTerrainAt(x, y, roomName) == IF IsOpen(<<x, y>>) THEN "plain" ELSE "wall"

\* A scan with the loops swapped: dy outside, dx inside.
ScanOffsetDyFirst(radius, j) ==
    <<Offset(radius, j)[2], Offset(radius, j)[1]>>

\* The offset (dx, dy) of step j of the loops over dx and, inside, dy.
ScanOffset(radius, j) == Offset(radius, j)

\* A ring test that keeps the corners only.
OnRingCorners(radius, d) == Abs(d[2]) = radius /\ Abs(d[1]) = radius

\* The steps that are not skipped: the offset lies on the ring.
OnRing(radius, d) == ~(Abs(d[2]) # radius /\ Abs(d[1]) # radius)

\* Whether step j of the ring finds a tile that is no wall.
ScanHit(radius, j, roomName) ==
    /\ OnRing(radius, ScanOffset(radius, j))
    /\ GetTerrainAt(25 + ScanOffset(radius, j)[1],
                    25 + ScanOffset(radius, j)[2], roomName) # "wall"

RECURSIVE ScanFrom(_, _)

\* The loop over radius from the given one on: the first ring with a hit
\* returns the tile of its first hit.
ScanFrom(radius, roomName) ==
    IF ~(radius < 23)
    THEN [x |-> -10, y |-> -10, roomName |-> CannotFindPathablePosition]
    ELSE LET hits == {j \in 1..Steps(radius) : ScanHit(radius, j, roomName)}
         IN  IF hits = {} THEN ScanFrom(radius + 1, roomName)
             ELSE LET first == CHOOSE j \in hits : \A k \in hits : j <= k
                  IN  [x |-> 25 + ScanOffset(radius, first)[1],
                       y |-> 25 + ScanOffset(radius, first)[2],
                       roomName |-> roomName]

\* findPathablePosition(roomName)
FindPathablePosition(roomName) == ScanFrom(0, roomName)

\* ------------------------------------------------------ distance memos

\* A position's name, room first: names are compared as strings, which
\* orders them by room, then x, then y.
Name(pos) == <<pos.roomName, pos.x, pos.y>>

\* name1 < name2 on position names.
NameLT(n, m) ==
    \/ n[1] < m[1]
    \/ n[1] = m[1] /\ n[2] < m[2]
    \/ n[1] = m[1] /\ n[2] = m[2] /\ n[3] < m[3]

\* A key made of the names in the order of the arguments.
SortedNamesArgOrder(n, m) == <<n, m>>

\* [name1, name2].sort()
SortedNames(n, m) == IF NameLT(m, n) THEN <<m, n>> ELSE <<n, m>>

\* An object with no keys.
EmptyTable == [n \in {} |-> 0]

\* table[name1][name2], undefined when either level is missing.
Lookup(table, name1, name2) ==
    IF name1 \in DOMAIN table /\ name2 \in DOMAIN table[name1]
    THEN Some(table[name1][name2])
    ELSE Undef

\* if (!table[name1]) table[name1] = {}
Vivify(table, name1) ==
    IF name1 \in DOMAIN table THEN table ELSE (name1 :> EmptyTable) @@ table

\* table[name1][name2] = value
Store(table, name1, name2, value) ==
    [table EXCEPT ![name1] = (name2 :> value) @@ @]

\* !table[name1][name2]: the slot is missing or holds 0.
Falsy(slot) == slot = Undef \/ slot[1] = 0

\* findShortestPath(startPos, endPos, options)
FindShortestPath(startPos, endPos, options) ==
    FindPath(startPos, endPos,
             Defaults(options,
                      [ignoreCreeps |-> TRUE, range |-> 1, direct |-> TRUE]))

\* The weight calculatePathWeight adds for one position of a path: a
\* position in a room without vision counts as a road.
TileWeight(tile) ==
    CASE tile = "unseen" -> 1
      [] tile = "road" -> 1
      [] tile = "plain" -> 2
      [] tile = "swamp" -> 10
      [] OTHER -> 0

RECURSIVE SumWeights(_)

SumWeights(path) ==
    IF path = << >> THEN 0 ELSE TileWeight(Head(path)) + SumWeights(Tail(path))

\* calculatePathWeight(startPos, endPos, options), with the search it made.
CalculatePathWeight(startPos, endPos, options) ==
    LET r == FindPath(startPos, endPos, Defaults(options, [range |-> 1]))
    IN  [weight |-> SumWeights(r.ret.path), ret |-> r.ret]

\* distance(arg1, arg2) on the table Memory.pathing.distances: the table it
\* leaves, the value it returns (undefined when the slot stays missing),
\* the oracle's answer when it searched, and whether it stored a value.
Distance(table, arg1, arg2) ==
    LET names == SortedNames(Name(arg1), Name(arg2))
        t1 == Vivify(table, names[1])
        miss == Falsy(Lookup(t1, names[1], names[2]))
        r == FindShortestPath(arg1, arg2, NoOptions)
        stored == miss /\ ~r.ret.incomplete
        t2 == IF stored THEN Store(t1, names[1], names[2], Len(r.ret.path))
              ELSE t1
    IN  [table |-> t2, value |-> Lookup(t2, names[1], names[2]),
         search |-> IF miss THEN Some(r.ret) ELSE Undef, stored |-> stored]

\* weightedDistance(arg1, arg2) on Memory.pathing.weightedDistances.
WeightedDistance(table, arg1, arg2) ==
    LET inOrder == NameLT(Name(arg1), Name(arg2))
        pos1 == IF inOrder THEN arg1 ELSE arg2
        pos2 == IF inOrder THEN arg2 ELSE arg1
        t1 == Vivify(table, Name(pos1))
        miss == Falsy(Lookup(t1, Name(pos1), Name(pos2)))
        r == CalculatePathWeight(pos1, pos2, NoOptions)
        t2 == IF miss THEN Store(t1, Name(pos1), Name(pos2), r.weight) ELSE t1
    IN  [table |-> t2, value |-> Lookup(t2, Name(pos1), Name(pos2)),
         search |-> IF miss THEN Some(r.ret) ELSE Undef, stored |-> miss]

\* ------------------------------------------------- the findPath scenarios

Pos(x, y, roomName) == [x |-> x, y |-> y, roomName |-> roomName]

\* serializePath not called.
NoSerial == [startPos |-> Pos(0, 0, 1), path |-> << >>, ret |-> Undef]

\* The start is in room 1; the goal is 0, 1, 2 or 3 rooms away.
OriginChoices == {Pos(1, 1, 1)}

DestinationChoices == {Pos(3, 3, r) : r \in 1..4}

\* The rooms whose avoid flag may be set.
AvoidChoices == {{}, {2}, {1, 3}, {1, 2, 3}}

\* The explicit allowed-room set a caller may pass as options.route.
ExplicitRoute == {1, 2, 3}

\* What the oracle may answer: a complete path to the goal or a partial path.
PathOutcomes ==
    { [incomplete |-> FALSE, path |-> <<"a", "b">>],
      [incomplete |-> TRUE, path |-> <<"a">>] }

\* The searches the oracle answers: unrestricted, restricted to the
\* corridor between the endpoints (what findRoute returns), to the caller's
\* explicit set, or to the two endpoints alone.
PathKeys(org, dst) ==
    { [from |-> org, to |-> dst, allowed |-> a, swampCost |-> 5] :
          a \in { Undef, Some(ExplicitRoute),
                  Some({org.roomName, dst.roomName}),
                  Some({org.roomName, dst.roomName}
                       \cup {r \in RoomNames : org.roomName < r /\ r < dst.roomName}) } }

\* The options objects the caller passes.
OptionChoices ==
    { [NoOptions EXCEPT !.useFindRoute = u, !.ensurePath = e, !.route = rt,
                        !.allowHostile = h, !.restrictDistance = rd,
                        !.direct = d, !.preferHighway = ph, !.movingTarget = mt] :
          u \in {Undef, Some(TRUE), Some(FALSE)},
          e \in {Undef, Some(TRUE)},
          rt \in {Undef, Some(ExplicitRoute)},
          h \in {Undef, Some(TRUE)},
          rd \in {Undef, Some(0), Some(2), Some(13)},
          d \in {Undef},
          ph \in {Undef, Some(TRUE)},
          mt \in {Undef} }

\* No isReachable call made.
ReachIdle == reachCall = Undef

\* No cost matrix asked for: a room without structures or creeps, nothing
\* cached.
MatIdle ==
    /\ matRoom = [name |-> 2, terrain |-> [i \in Tiles |-> "plain"],
                  structures |-> << >>, sites |-> << >>, creeps |-> << >>]
    /\ cache = EmptyCache
    /\ matRet = Undef

\* No memo call made, the tables empty.
MemoIdle ==
    /\ distances = EmptyTable
    /\ weightedDistances = EmptyTable
    /\ memoCall = Undef

\* One findPath call, as the log keeps it.
CallRecord(optionsIn) ==
    LET r == FindPath(origin, destination, optionsIn)
    IN  [optionsIn |-> optionsIn, ret |-> r.ret, optionsOut |-> r.options,
         searches |-> r.searches]

InitPath ==
    /\ avoid \in AvoidChoices
    /\ expansionData = NoExpansionData
    /\ openTiles = OpenFrom(0)
    /\ serialized = NoSerial
    /\ routable \in BOOLEAN
    /\ origin \in OriginChoices
    /\ destination \in DestinationChoices
    /\ oracle \in [PathKeys(origin, destination) -> PathOutcomes]
    /\ callLog = << >>
    /\ MemoIdle
    /\ ReachIdle
    /\ MatIdle

\* The caller builds an options object and calls findPath with it.
FindPathCall ==
    /\ callLog = << >>
    /\ \E options \in OptionChoices :
           callLog' = <<CallRecord(options)>>
    /\ UNCHANGED <<avoid, expansionData, openTiles, serialized, routable,
                   oracle, origin, destination>>
    /\ UNCHANGED <<memoVars, reachCall, matVars>>

\* The caller calls findPath again with the same options object.
FindPathAgain ==
    /\ callLog # << >>
    /\ Len(callLog) < MaxReuse
    /\ callLog' = Append(callLog, CallRecord(callLog[Len(callLog)].optionsOut))
    /\ UNCHANGED <<avoid, expansionData, openTiles, serialized, routable,
                   oracle, origin, destination>>
    /\ UNCHANGED <<memoVars, reachCall, matVars>>

NextPath == FindPathCall \/ FindPathAgain

\* --------------------------------------------------- the memo scenarios

\* The two positions whose distances are asked for, one room apart.
MemoPositions == {Pos(1, 1, 1), Pos(2, 2, 2)}

\* What the oracle may answer to a memo search: complete or not, with an
\* empty path or a path over a road, a plain, a swamp and a room without
\* vision.
MemoOutcomes ==
    [incomplete : BOOLEAN,
     path : {<< >>, <<"road", "plain", "swamp", "unseen">>}]

MemoKey(from, to, swampCost) ==
    [from |-> from, to |-> to, allowed |-> Undef, swampCost |-> swampCost]

\* The searches between two different positions: distance searches in the
\* order of its arguments with the direct terrain costs, weightedDistance
\* in the order of the names with the default ones.
MemoFreeKeys ==
    { MemoKey(ab[1], ab[2], 1) :
          ab \in {pq \in MemoPositions \X MemoPositions : pq[1] # pq[2]} }
    \cup { MemoKey(ab[1], ab[2], 5) :
               ab \in {pq \in MemoPositions \X MemoPositions :
                           NameLT(Name(pq[1]), Name(pq[2]))} }

\* A search from a position to itself is complete at once, with no step.
MemoFixedAnswers ==
    [k \in { MemoKey(a, a, c) : a \in MemoPositions, c \in {1, 5} } |->
        [incomplete |-> FALSE, path |-> << >>]]

InitMemo ==
    /\ avoid = {}
    /\ expansionData = NoExpansionData
    /\ openTiles = OpenFrom(0)
    /\ serialized = NoSerial
    /\ routable = TRUE
    /\ origin = Pos(1, 1, 1)
    /\ destination = Pos(2, 2, 2)
    /\ \E free \in [MemoFreeKeys -> MemoOutcomes] :
           oracle = free @@ MemoFixedAnswers
    /\ callLog = << >>
    /\ MemoIdle
    /\ ReachIdle
    /\ MatIdle

MemoRecord(fn, arg1, arg2, r) ==
    Some([fn |-> fn, arg1 |-> arg1, arg2 |-> arg2, value |-> r.value,
          search |-> r.search, stored |-> r.stored])

DistanceCall ==
    /\ \E arg1 \in MemoPositions, arg2 \in MemoPositions :
           LET r == Distance(distances, arg1, arg2)
           IN  /\ distances' = r.table
               /\ memoCall' = MemoRecord("distance", arg1, arg2, r)
    /\ UNCHANGED <<weightedDistances, pathVars, reachCall, matVars>>

WeightedDistanceCall ==
    /\ \E arg1 \in MemoPositions, arg2 \in MemoPositions :
           LET r == WeightedDistance(weightedDistances, arg1, arg2)
           IN  /\ weightedDistances' = r.table
               /\ memoCall' = MemoRecord("weightedDistance", arg1, arg2, r)
    /\ UNCHANGED <<distances, pathVars, reachCall, matVars>>

NextMemo == DistanceCall \/ WeightedDistanceCall

SpecMemo == InitMemo /\ [][NextMemo]_vars

Spec == InitPath /\ [][NextPath]_vars

\* ------------------------------------------------ the isReachable scenarios

\* No findPath call made, in a world where no room is avoided but room 3.
PathIdle ==
    /\ avoid = {3}
    /\ expansionData = NoExpansionData
    /\ openTiles = OpenFrom(0)
    /\ serialized = NoSerial
    /\ routable = TRUE
    /\ origin = Pos(1, 1, 1)
    /\ destination = Pos(3, 3, 4)
    /\ oracle = [k \in {} |-> 0]
    /\ callLog = << >>

\* Two positions of room 1 and one of room 2.
ReachPositions == {Pos(0, 0, 1), Pos(3, 3, 1), Pos(3, 3, 2)}

\* The obstacle lists a caller passes: positions, objects with a position,
\* and an obstacle of another room.
ObstacleChoices ==
    { << >>,
      <<Pos(1, 1, 1)>>,
      <<[pos |-> Pos(2, 2, 1)]>>,
      <<Pos(1, 1, 2)>>,
      <<Pos(0, 4, 1)>>,
      <<Pos(1, 2, 1), [pos |-> Pos(2, 2, 1)]>> }

\* What the oracle may answer to the single-room search.
ReachOutcomes ==
    [incomplete : BOOLEAN,
     path : { << >>,
              <<Pos(1, 1, 1), Pos(2, 2, 1), Pos(3, 3, 1)>>,
              <<Pos(1, 0, 1), Pos(2, 1, 1), Pos(3, 2, 1)>>,
              <<Pos(1, 1, 2), Pos(2, 2, 2)>> }]

InitReach ==
    /\ PathIdle
    /\ MemoIdle
    /\ ReachIdle
    /\ MatIdle

IsReachableCall ==
    /\ \E startPos \in ReachPositions, endPos \in ReachPositions,
          obstacles \in ObstacleChoices, answer \in ReachOutcomes :
           LET r == IsReachable(startPos, endPos, obstacles, NoOptions, answer)
           IN  reachCall' = Some([startPos |-> startPos, endPos |-> endPos,
                                  obstacles |-> obstacles, answer |-> answer,
                                  result |-> r.result, searched |-> r.searched])
    /\ UNCHANGED <<pathVars, memoVars, matVars>>

NextReach == IsReachableCall

SpecReach == InitReach /\ [][NextReach]_vars

\* ------------------------------------------------ the cost matrix scenarios

\* The terrain of a room with walls and swamps at the given tiles.
TerrainOf(walls, swamps) ==
    [i \in Tiles |->
        IF \E w \in walls : Index(w[1], w[2]) = i THEN "wall"
        ELSE IF \E w \in swamps : Index(w[1], w[2]) = i THEN "swamp"
        ELSE "plain"]

Plains == TerrainOf({}, {})

Walled == TerrainOf({<<0, 3>>, <<1, 3>>}, {<<4, 4>>})

Structure(type, x, y, isWalkable) ==
    [structureType |-> type, x |-> x, y |-> y, isWalkable |-> isWalkable]

\* A road under a spawn, a walkable rampart and a road.
Base == <<Structure("spawn", 1, 1, FALSE), Structure("road", 1, 1, TRUE),
          Structure("rampart", 2, 2, TRUE), Structure("road", 0, 2, TRUE)>>

\* A keeper lair and an extension.
Lair == <<Structure("keeperLair", 3, 3, FALSE),
          Structure("extension", 0, 1, FALSE)>>

Site(x, y, my, isWalkable) == [x |-> x, y |-> y, my |-> my, isWalkable |-> isWalkable]

Sites == <<Site(2, 1, TRUE, FALSE), Site(4, 0, FALSE, FALSE), Site(4, 1, TRUE, TRUE)>>

Creep(x, y, my, attack, ranged) ==
    [x |-> x, y |-> y, my |-> my, attack |-> attack, ranged |-> ranged]

\* One creep of ours and an unarmed hostile.
Scouts == <<Creep(0, 0, TRUE, 1, 0), Creep(4, 4, FALSE, 0, 0)>>

\* Two armed hostiles whose radii overlap and one creep of ours.
Raiders == <<Creep(2, 2, FALSE, 1, 0), Creep(1, 2, FALSE, 0, 2),
             Creep(4, 0, TRUE, 0, 0)>>

Room(name, terrain, structures, sites, creeps) ==
    [name |-> name, terrain |-> terrain, structures |-> structures,
     sites |-> sites, creeps |-> creeps]

\* Ordinary rooms (2) and source keeper rooms (4).
MatRooms ==
    { Room(2, Walled, Base, Sites, Raiders),
      Room(2, Plains, Base, << >>, Scouts),
      Room(2, Walled, << >>, << >>, Raiders),
      Room(4, Walled, Lair, << >>, Raiders),
      Room(4, Plains, Lair, Sites, << >>),
      Room(4, Walled, Base, Sites, Scouts) }

\* The options objects getCostMatrix is called with.
MatOptionChoices ==
    { NoOptions,
      [NoOptions EXCEPT !.ignoreCreeps = Some(FALSE)],
      [NoOptions EXCEPT !.ignoreCreeps = Some(FALSE), !.avoidSK = Some(TRUE)],
      [NoOptions EXCEPT !.avoidSK = Some(TRUE)],
      [NoOptions EXCEPT !.ignoreStructures = Some(TRUE)],
      [NoOptions EXCEPT !.direct = Some(TRUE)],
      [NoOptions EXCEPT !.obstacles = Some(<< >>)],
      [NoOptions EXCEPT !.obstacles = Some(<<Pos(3, 1, 2), Pos(3, 2, 4)>>)],
      [NoOptions EXCEPT !.avoidSK = Some(TRUE),
                        !.obstacles = Some(<<Pos(3, 1, 2), Pos(3, 1, 4)>>)] }

\* The options objects the room callback is called with.
CallbackOptionChoices ==
    { NoOptions,
      [NoOptions EXCEPT !.allowHostile = Some(TRUE)],
      [NoOptions EXCEPT !.modifyRoomCallback = Some(<<0, 2, 77>>)],
      [NoOptions EXCEPT !.ignoreCreeps = Some(FALSE),
                        !.modifyRoomCallback = Some(<<0, 2, 0>>)] }

\* What the caller of getCostMatrix(room, options, true) may write into its
\* copy.
CallerWrites == {<<1, 1, 0>>}

InitMatrix ==
    /\ PathIdle
    /\ MemoIdle
    /\ ReachIdle
    /\ matRoom \in MatRooms
    /\ cache = EmptyCache
    /\ matRet = Undef

MatRecord(op, options, clone, kind, obj) ==
    Some([op |-> op, options |-> options, clone |-> clone, kind |-> kind,
          obj |-> obj, mutated |-> FALSE])

GetCostMatrixCall ==
    /\ \E options \in MatOptionChoices, clone \in BOOLEAN :
           LET st == GetCostMatrix(cache, matRoom, options, clone)
           IN  /\ cache' = st.cache
               /\ matRet' = MatRecord("getCostMatrix", options, clone,
                                      "matrix", st.obj)
    /\ UNCHANGED <<matRoom, pathVars, memoVars, reachCall>>

RoomCallbackCall ==
    /\ \E roomName \in {matRoom.name, 3}, options \in CallbackOptionChoices,
          allowedRooms \in {Undef, Some({1})} :
           LET r == RoomCallback(cache, roomName, origin, destination,
                                 allowedRooms, options)
           IN  /\ cache' = r.cache
               /\ matRet' = MatRecord("roomCallback", options, FALSE,
                                      r.kind, r.obj)
    /\ UNCHANGED <<matRoom, pathVars, memoVars, reachCall>>

KitingRoomCallbackCall ==
    /\ \E roomName \in {matRoom.name, 3} :
           LET r == KitingRoomCallback(cache, roomName)
           IN  /\ cache' = r.cache
               /\ matRet' = MatRecord("kitingRoomCallback", NoOptions, FALSE,
                                      r.kind, r.obj)
    /\ UNCHANGED <<matRoom, pathVars, memoVars, reachCall>>

\* The caller of getCostMatrix(room, options, true) writes into the copy it
\* was handed.
CallerWrite ==
    /\ matRet # Undef
    /\ matRet[1].op = "getCostMatrix"
    /\ matRet[1].clone
    /\ ~matRet[1].mutated
    /\ \E w \in CallerWrites :
           LET st == SetEach([cache |-> cache, obj |-> matRet[1].obj], <<w>>)
           IN  /\ cache' = st.cache
               /\ matRet' = Some([matRet[1] EXCEPT !.obj = st.obj,
                                                   !.mutated = TRUE])
    /\ UNCHANGED <<matRoom, pathVars, memoVars, reachCall>>

NextMatrix ==
    \/ GetCostMatrixCall
    \/ RoomCallbackCall
    \/ KitingRoomCallbackCall
    \/ CallerWrite

SpecMatrix == InitMatrix /\ [][NextMatrix]_vars

\* ------------------------------------------------ the callback scenarios

\* The rooms whose avoid flag is set: none; two rooms on the way; the
\* origin, the possible destinations and the unobserved keeper room.
CbAvoidChoices == {{}, {2, 3}, {1, 2, 4, 6}}

\* The rooms the callbacks are asked about.
CbRooms == {1, 2, 3, 4, 6}

CbOptionChoices ==
    { [NoOptions EXCEPT !.allowHostile = h, !.avoidSK = sk] :
          h \in {Undef, Some(TRUE)}, sk \in {Undef, Some(TRUE)} }

InitCallback ==
    /\ avoid \in CbAvoidChoices
    /\ expansionData = NoExpansionData
    /\ openTiles = OpenFrom(0)
    /\ serialized = NoSerial
    /\ routable = TRUE
    /\ origin = Pos(1, 1, 1)
    /\ destination \in {Pos(3, 3, 2), Pos(3, 3, 4)}
    /\ oracle = [k \in {} |-> 0]
    /\ callLog = << >>
    /\ MemoIdle
    /\ ReachIdle
    /\ matRoom \in { Room(2, Walled, Base, Sites, Raiders),
                      Room(4, Plains, Lair, Sites, << >>) }
    /\ cache = EmptyCache
    /\ matRet = Undef

\* One callback or findRoute invocation, as it is kept.
CbRecord(op, roomName, options, kind, obj, route) ==
    Some([op |-> op, roomName |-> roomName, options |-> options,
          kind |-> kind, obj |-> obj, route |-> route])

CbRoomCallback ==
    /\ \E roomName \in CbRooms, options \in CbOptionChoices,
          allowedRooms \in {Undef, Some({1, 2, 3, 4})} :
           LET r == RoomCallback(cache, roomName, origin, destination,
                                 allowedRooms, options)
           IN  /\ cache' = r.cache
               /\ matRet' = CbRecord("roomCallback", roomName, options,
                                     r.kind, r.obj, allowedRooms)
    /\ UNCHANGED <<matRoom, pathVars, memoVars, reachCall>>

CbFleeCallback ==
    /\ \E roomName \in CbRooms, options \in CbOptionChoices :
           LET r == FleeCallback(cache, roomName, origin, options)
           IN  /\ cache' = r.cache
               /\ matRet' = CbRecord("fleeCallback", roomName, options,
                                     r.kind, r.obj, Undef)
    /\ UNCHANGED <<matRoom, pathVars, memoVars, reachCall>>

CbFindRoute ==
    /\ \E options \in CbOptionChoices :
           matRet' = CbRecord("findRoute", origin.roomName, options, "route",
                              Obj(NewMatrix, {}),
                              FindRoute(origin.roomName, destination.roomName,
                                        options))
    /\ UNCHANGED <<matRoom, cache, pathVars, memoVars, reachCall>>

NextCallback == CbRoomCallback \/ CbFleeCallback \/ CbFindRoute

SpecCallback == InitCallback /\ [][NextCallback]_vars

\* -------------------------------------------- the updateRoomStatus scenarios

\* The observed rooms updateRoomStatus is called with: rooms 2 and 3 with an
\* unowned controller, our own or another player's (a controller that is
\* ours has an owner), room 4 (a source keeper room) without a controller;
\* each with 0 to 2 towers.
StatusRooms ==
    { [name |-> n, controller |-> Some([owner |-> o, my |-> m]), towers |-> t] :
          n \in {2, 3}, o \in BOOLEAN, m \in BOOLEAN, t \in 0..2 }
    \cup { [name |-> 4, controller |-> Undef, towers |-> t] : t \in 0..2 }

InitStatus ==
    /\ avoid \in SUBSET {2, 3, 4}
    /\ expansionData \in { [NoExpansionData EXCEPT ![2] = e] :
                                e \in {Undef, Some(FALSE), Some(TRUE)} }
    /\ openTiles = OpenFrom(0)
    /\ serialized = NoSerial
    /\ routable = TRUE
    /\ origin = Pos(1, 1, 1)
    /\ destination = Pos(3, 3, 4)
    /\ oracle = [k \in {} |-> 0]
    /\ callLog = << >>
    /\ MemoIdle
    /\ ReachIdle
    /\ MatIdle

UpdateRoomStatusCall ==
    /\ \E room \in {r \in StatusRooms :
                        r.controller = Undef
                        \/ (r.controller[1].my => r.controller[1].owner)} :
           LET r == UpdateRoomStatus(avoid, expansionData, room)
           IN  /\ avoid' = r.avoid
               /\ expansionData' = r.expansionData
               /\ matRet' = Some([op |-> "updateRoomStatus", room |-> room])
    /\ UNCHANGED <<openTiles, serialized, routable, oracle, origin,
                   destination, callLog,
                   matRoom, cache, memoVars, reachCall>>

NextStatus == UpdateRoomStatusCall

SpecStatus == InitStatus /\ [][NextStatus]_vars

\* ---------------------------------------- the findPathablePosition scenarios

\* The eight tiles around the centre.
FirstRing == {t \in (24..26) \X (24..26) : t # <<25, 25>>}

\* A room of walls but for the given tiles.
OnlyOpen(tiles) == [from |-> 50, tiles |-> tiles]

\* The terrains of the scenarios: the centre open or not, any part of the
\* first ring open, and beyond it nothing, a tile at distance 22 or a tile
\* at distance 23; and the rooms open from some distance on.
TerrainChoices ==
    { OnlyOpen(c \cup ring \cup far) :
          c \in {{}, {<<25, 25>>}}, ring \in SUBSET FirstRing,
          far \in {{}, {<<3, 30>>}, {<<2, 25>>}} }
    \cup { OpenFrom(k) : k \in {0, 1, 2, 22, 23, 24} }

InitPathable ==
    /\ avoid = {}
    /\ expansionData = NoExpansionData
    /\ openTiles \in TerrainChoices
    /\ serialized = NoSerial
    /\ routable = TRUE
    /\ origin = Pos(1, 1, 1)
    /\ destination = Pos(3, 3, 4)
    /\ oracle = [k \in {} |-> 0]
    /\ callLog = << >>
    /\ MemoIdle
    /\ ReachIdle
    /\ MatIdle

FindPathablePositionCall ==
    /\ \E roomName \in {2, 4} :
           matRet' = Some([op |-> "findPathablePosition", roomName |-> roomName,
                           ret |-> FindPathablePosition(roomName)])
    /\ UNCHANGED <<pathVars, memoVars, reachCall, matRoom, cache>>

NextPathable == FindPathablePositionCall

SpecPathable == InitPathable /\ [][NextPathable]_vars

\* ---------------------------------------------------- the kiting scenarios

\* Rooms with an armed hostile in the corner (0, 0), so that the tiles at its
\* offsets (3, 3) and (4, 4) are tiles of the room: with nothing, roads or
\* an extension on them, and with or without a creep of ours there.
KitingRooms ==
    { Room(2, Plains, st, << >>, <<Creep(0, 0, FALSE, 1, 0)>> \o c) :
          st \in { << >>,
                   <<Structure("road", 3, 3, TRUE), Structure("road", 4, 4, TRUE)>>,
                   <<Structure("extension", 4, 4, FALSE)>> },
          c \in { << >>, <<Creep(4, 4, TRUE, 0, 0)>>, <<Creep(3, 3, TRUE, 0, 0)>> } }

InitKiting ==
    /\ PathIdle
    /\ MemoIdle
    /\ ReachIdle
    /\ matRoom \in KitingRooms
    /\ cache = EmptyCache
    /\ matRet = Undef

SpecKiting == InitKiting /\ [][NextMatrix]_vars

\* ------------------------------------------------------------ serializePath

\* The direction constants.
DIRECTION ==
    [TOP |-> 1, TOP_RIGHT |-> 2, RIGHT |-> 3, BOTTOM_RIGHT |-> 4, BOTTOM |-> 5,
     BOTTOM_LEFT |-> 6, LEFT |-> 7, TOP_LEFT |-> 8]

\* String(n) for a natural number: its decimal digits.
RECURSIVE NumberToString(_)
NumberToString(n) ==
    LET digits == <<"0", "1", "2", "3", "4", "5", "6", "7", "8", "9">>
    IN  IF n < 10 THEN <<digits[n + 1]>>
        ELSE NumberToString(n \div 10) \o <<digits[(n % 10) + 1]>>

\* lastPosition.getDirectionTo(position) for two different positions of one
\* room: one of the eight directions, along an axis when the offset on that
\* axis is more than twice the other.
GetDirectionTo(lastPosition, position) ==
    LET dx == position.x - lastPosition.x
        dy == position.y - lastPosition.y
    IN  IF Abs(dx) > 2 * Abs(dy)
        THEN (IF dx > 0 THEN DIRECTION.RIGHT ELSE DIRECTION.LEFT)
        ELSE IF Abs(dy) > 2 * Abs(dx)
        THEN (IF dy > 0 THEN DIRECTION.BOTTOM ELSE DIRECTION.TOP)
        ELSE IF dx > 0 /\ dy > 0 THEN DIRECTION.BOTTOM_RIGHT
        ELSE IF dx > 0 /\ dy < 0 THEN DIRECTION.TOP_RIGHT
        ELSE IF dx < 0 /\ dy > 0 THEN DIRECTION.BOTTOM_LEFT
        ELSE DIRECTION.TOP_LEFT

\* A loop body that appends a direction for every pair, across rooms too.
SerializeStepEveryPair(serializedPath, lastPosition, position) ==
    serializedPath \o NumberToString(GetDirectionTo(lastPosition, position))

\* The body of serializePath's loop: the string after `position` (the line
\* drawn on the room visual leaves no trace in the result).
SerializeStep(serializedPath, lastPosition, position) ==
    IF position.roomName = lastPosition.roomName
    THEN serializedPath \o NumberToString(GetDirectionTo(lastPosition, position))
    ELSE serializedPath

\* serializePath(startPos, path): the string after the loop went through
\* the path is the string after its last position, built on the string the
\* loop had made of the positions before.
RECURSIVE SerializePath(_, _)
SerializePath(startPos, path) ==
    IF path = << >> THEN << >>
    ELSE LET before == SubSeq(path, 1, Len(path) - 1)
             lastPosition == IF before = << >> THEN startPos
                             ELSE before[Len(before)]
         IN  SerializeStep(SerializePath(startPos, before), lastPosition,
                           path[Len(path)])

\* ------------------------------------------------- the serializing scenarios

\* The start is a position of two rooms, far enough apart for every
\* direction and for offsets that are not a single step; the path is one as
\* a search returns it, where no position is its own predecessor.
InitSerial ==
    /\ avoid = {}
    /\ expansionData = NoExpansionData
    /\ openTiles = OpenFrom(0)
    /\ LET positions == { Pos(x, y, r) : x \in 0..2, y \in 0..1, r \in {1, 2} }
           paths == UNION { [1..n -> positions] : n \in 0..MaxPathLen }
       IN  \E startPos \in positions :
               serialized \in
                   { [startPos |-> startPos, path |-> path, ret |-> Undef] :
                       path \in { q \in paths :
                                     \A i \in DOMAIN q :
                                         q[i] # IF i = 1 THEN startPos
                                                ELSE q[i - 1] } }
    /\ routable = TRUE
    /\ origin = Pos(1, 1, 1)
    /\ destination = Pos(3, 3, 4)
    /\ oracle = [k \in {} |-> 0]
    /\ callLog = << >>
    /\ MemoIdle
    /\ ReachIdle
    /\ MatIdle

SerializePathCall ==
    /\ serialized.ret = Undef
    /\ serialized' = [serialized EXCEPT
                         !.ret = Some(SerializePath(serialized.startPos,
                                                    serialized.path))]
    /\ UNCHANGED <<avoid, expansionData, openTiles, routable, oracle, origin,
                   destination, callLog, memoVars, reachCall, matVars>>

NextSerial == SerializePathCall

SpecSerial == InitSerial /\ [][NextSerial]_vars

\* ----------------------------------------------------------------- claims

\* The oracle's answer to the unrestricted search of the scenario, and to
\* the search restricted to the rooms `allowed`.
UnrestrictedAnswer ==
    oracle[[from |-> origin, to |-> destination, allowed |-> Undef,
            swampCost |-> 5]]

RestrictedAnswer(allowed) ==
    oracle[[from |-> origin, to |-> destination, allowed |-> allowed,
            swampCost |-> 5]]

ScenarioDistance == LinearDistance(origin.roomName, destination.roomName)

\* C1: every findPath call searches at most twice; it searches a second time
\* exactly when the first result is incomplete, ensurePath was requested,
\* useFindRoute was left undefined and the rooms are at most 2 apart; the
\* second search runs with useFindRoute = true and its result is the call's
\* result, complete or not.
C1_RetryOnce ==
    \A i \in DOMAIN callLog :
        LET c == callLog[i]
        IN  /\ Len(c.searches) \in {1, 2}
            /\ Len(c.searches) = 2
                   <=> /\ c.searches[1].ret.incomplete
                       /\ TruthyB(c.optionsIn.ensurePath)
                       /\ c.optionsIn.useFindRoute = Undef
                       /\ ScenarioDistance <= 2
            /\ Len(c.searches) = 2
                   => /\ c.searches[2].options.useFindRoute = Some(TRUE)
                      /\ c.ret = c.searches[2].ret
            /\ Len(c.searches) = 1 => c.ret = c.searches[1].ret

\* C1 witness: a call whose second attempt was made and was incomplete too.
C1_Witness ==
    \E i \in DOMAIN callLog :
        /\ Len(callLog[i].searches) = 2
        /\ callLog[i].searches[2].routeCall # Undef
        /\ callLog[i].ret.incomplete

\* The premise of C2: the rooms are one apart, the unrestricted search is
\* incomplete, findRoute returns a room set under the call's options and the
\* search restricted to that set is complete.
C2_Premise(c) ==
    LET allowed == FindRoute(origin.roomName, destination.roomName, c.optionsIn)
    IN  /\ ScenarioDistance = 1
        /\ UnrestrictedAnswer.incomplete
        /\ allowed # Undef
        /\ ~RestrictedAnswer(allowed).incomplete

\* C2 as claimed: under the premise findPath returns the completed path of
\* the restricted search, whatever the options.
C2_AsClaimed ==
    \A i \in DOMAIN callLog :
        LET c == callLog[i]
        IN  C2_Premise(c)
                => /\ ~c.ret.incomplete
                   /\ c.ret = RestrictedAnswer(FindRoute(origin.roomName,
                                   destination.roomName, c.optionsIn))

\* C2 amended: under the premise, and when ensurePath was requested, no
\* explicit options.route was given and useFindRoute is not false, findPath
\* returns the completed path of the restricted search.
C2_RetryReturnsCompleted ==
    \A i \in DOMAIN callLog :
        LET c == callLog[i]
        IN  (/\ C2_Premise(c)
             /\ TruthyB(c.optionsIn.ensurePath)
             /\ c.optionsIn.route = Undef
             /\ c.optionsIn.useFindRoute # Some(FALSE))
                => /\ ~c.ret.incomplete
                   /\ c.ret = RestrictedAnswer(FindRoute(origin.roomName,
                                   destination.roomName, c.optionsIn))

\* C2 witness: a call under the premise whose first, unrestricted search was
\* incomplete and whose second attempt returned the completed path.
C2_Witness ==
    \E i \in DOMAIN callLog :
        /\ C2_Premise(callLog[i])
        /\ Len(callLog[i].searches) = 2
        /\ callLog[i].searches[1].allowedRooms = Undef
        /\ callLog[i].searches[1].ret.incomplete
        /\ ~callLog[i].ret.incomplete

\* The findRoute calls of the logged findPath calls.
LoggedRouteCalls ==
    UNION { { callLog[i].searches[j].routeCall[1] :
                  j \in { k \in DOMAIN callLog[i].searches :
                              callLog[i].searches[k].routeCall # Undef } } :
            i \in DOMAIN callLog }

\* C9 as claimed: the route callback of every findRoute call returns
\* +infinity for a room exactly when the room is further from the origin
\* than max(linearDistance + 10, override).
C9_AsClaimed ==
    \A rc \in LoggedRouteCalls : \A roomName \in RoomNames :
        RouteCallback(rc.origin, rc.destination, rc.options, roomName).inf
            <=> LinearDistance(rc.origin, roomName)
                    > RestrictDistanceMax(rc.options,
                          LinearDistance(rc.origin, rc.destination))

\* C9 amended: the radius is the override when a non-zero one is given, and
\* linearDistance + 10 otherwise; the callback returns +infinity for a room
\* exactly when the room is further from the origin than this radius, or is
\* flagged avoid while hostile rooms are not allowed and it is neither the
\* origin nor the destination.
C9_OverrideReplacesRadius ==
    \A rc \in LoggedRouteCalls : \A roomName \in RoomNames :
        LET lin == LinearDistance(rc.origin, rc.destination)
            override == rc.options.restrictDistance
            radius == IF override # Undef /\ override[1] # 0
                      THEN override[1] ELSE lin + 10
        IN  RouteCallback(rc.origin, rc.destination, rc.options, roomName).inf
                <=> \/ LinearDistance(rc.origin, roomName) > radius
                    \/ /\ roomName \in avoid
                       /\ ~TruthyB(rc.options.allowHostile)
                       /\ roomName \notin {rc.origin, rc.destination}

\* C9 witness: a findRoute call with an override of 2, smaller than
\* linearDistance + 10, whose callback rejects an unflagged room 3 away.
C9_Witness ==
    \E rc \in LoggedRouteCalls :
        /\ rc.options.restrictDistance = Some(2)
        /\ rc.origin + 3 \notin avoid
        /\ RouteCallback(rc.origin, rc.destination, rc.options,
                         rc.origin + 3).inf

\* The findPath invocations of the log: each call and its second attempt.
Invocations ==
    UNION { { callLog[i].searches[j] : j \in DOMAIN callLog[i].searches } :
            i \in DOMAIN callLog }

\* C10 as claimed: a findPath invocation calls findRoute exactly when no
\* options.route is given and useFindRoute is set or the rooms are more
\* than 2 apart, whatever value useFindRoute has.
C10_AsClaimed ==
    \A s \in Invocations :
        s.routeCall # Undef
            <=> /\ s.options.route = Undef
                /\ (TruthyB(s.options.useFindRoute) \/ s.roomDistance > 2)

\* C10 amended: a findPath invocation calls findRoute exactly when no
\* options.route is given and either useFindRoute is true, or useFindRoute
\* is undefined and the rooms are more than 2 apart; with useFindRoute
\* false it never calls it.
C10_RouteUnlessDeclined ==
    \A s \in Invocations :
        s.routeCall # Undef
            <=> /\ s.options.route = Undef
                /\ \/ s.options.useFindRoute = Some(TRUE)
                   \/ s.options.useFindRoute = Undef /\ s.roomDistance > 2

\* C10 witness: an invocation for rooms 3 apart with useFindRoute false and
\* no options.route, which made no findRoute call.
C10_Witness ==
    \E s \in Invocations :
        /\ s.roomDistance > 2
        /\ s.options.useFindRoute = Some(FALSE)
        /\ s.options.route = Undef
        /\ s.routeCall = Undef

\* C3 as claimed: whenever distance or weightedDistance stores a value in its
\* table, the search the value was computed from was complete.
C3_AsClaimed ==
    memoCall # Undef /\ memoCall[1].stored
        => ~memoCall[1].search[1].incomplete

\* C4 as claimed: from every state of the tables, distance(a, b) followed by
\* distance(b, a) return the same value, and so do weightedDistance(a, b)
\* followed by weightedDistance(b, a).
C4_AsClaimed ==
    \A a \in MemoPositions, b \in MemoPositions :
        LET d1 == Distance(distances, a, b)
            d2 == Distance(d1.table, b, a)
            w1 == WeightedDistance(weightedDistances, a, b)
            w2 == WeightedDistance(w1.table, b, a)
        IN  d1.value = d2.value /\ w1.value = w2.value

\* What a cache slot holds when its matrix is built from the room with
\* nothing cached before.
Fresh(slot) ==
    CASE slot = "default" -> GetDefaultMatrix(EmptyCache, matRoom).obj.m
      [] slot = "direct" -> GetDirectMatrix(EmptyCache, matRoom).obj.m
      [] slot = "creep" -> GetCreepMatrix(EmptyCache, matRoom).obj.m
      [] slot = "kiting" -> GetKitingMatrix(EmptyCache, matRoom).obj.m
      [] slot = "sk" -> GetSkMatrix(EmptyCache, matRoom).obj.m

NoObstacles(options) ==
    options.obstacles = Undef \/ options.obstacles[1] = << >>

\* C5: every cached matrix holds what its build from the room gives,
\* whatever getCostMatrix calls with obstacles, variant builds, room
\* callbacks with a modifyRoomCallback and writes of callers into their
\* copies came before; and a getCostMatrix call without obstacles returns
\* the contents of that build.
C5_CachedMatricesKept ==
    /\ \A slot \in Slots : cache[slot] # Undef => cache[slot][1] = Fresh(slot)
    /\ (/\ matRet # Undef
        /\ matRet[1].op = "getCostMatrix"
        /\ NoObstacles(matRet[1].options)
        /\ ~matRet[1].mutated)
           => matRet[1].obj.m
                  = PickMatrix(EmptyCache, matRoom, matRet[1].options).obj.m

\* C5 witness: getCostMatrix was called without clone and with an obstacle of
\* the room; the matrix it returned has the obstacle, the cached default
\* matrix does not.
C5_Witness ==
    /\ matRet # Undef
    /\ matRet[1].op = "getCostMatrix"
    /\ ~matRet[1].clone
    /\ ~NoObstacles(matRet[1].options)
    /\ cache["default"] # Undef
    /\ \E t \in Tiles : /\ matRet[1].obj.m[t] = IMPASSABLE
                        /\ cache["default"][1][t] = 0

\* C6: once the kiting matrix is built, every tile costs at least as much in
\* it as in the creep matrix and at most 255, so a tile that is 255 in the
\* creep matrix is 255 in the kiting matrix.
C6_KitingAtLeastCreep ==
    cache["kiting"] # Undef
        => \A t \in Tiles :
               /\ cache["kiting"][1][t] >= cache["creep"][1][t]
               /\ cache["kiting"][1][t] <= IMPASSABLE
               /\ cache["creep"][1][t] = IMPASSABLE
                      => cache["kiting"][1][t] = IMPASSABLE

\* C6 witness: the kiting matrix is built for a room with two armed
\* hostiles; the tile of the first is within radius 3 of both, is 255 in
\* the creep matrix and 255 in the kiting matrix, and another tile costs
\* more in the kiting matrix than in the creep matrix.
C6_Witness ==
    /\ cache["kiting"] # Undef
    /\ Len(AvoidCreeps(matRoom)) >= 2
    /\ LET a == AvoidCreeps(matRoom)[1]
           b == AvoidCreeps(matRoom)[2]
       IN  /\ Max(Abs(a.x - b.x), Abs(a.y - b.y)) <= 3
           /\ cache["creep"][1][Index(a.x, a.y)] = IMPASSABLE
           /\ cache["kiting"][1][Index(a.x, a.y)] = IMPASSABLE
    /\ \E t \in Tiles : cache["kiting"][1][t] > cache["creep"][1][t]

\* C7 as claimed: in no cached matrix of the room does a terrain wall tile
\* carry a passable cost 1..254.
C7_AsClaimed ==
    \A slot \in Slots :
        cache[slot] # Undef
            => \A t \in Tiles :
                   matRoom.terrain[t] = "wall"
                       => cache[slot][1][t] \notin 1..(IMPASSABLE - 1)

\* Whether a tile of the oracle's path has the coordinates of an obstacle.
CrossesObstacle(c) ==
    \E i \in DOMAIN c.answer.path : \E j \in DOMAIN c.obstacles :
        /\ c.answer.path[i].x = ObstaclePos(c.obstacles[j]).x
        /\ c.answer.path[i].y = ObstaclePos(c.obstacles[j]).y

\* C8: isReachable returns true exactly when start and end are in the same
\* room, the oracle's search is complete and no tile of its path is an
\* obstacle tile; for start and end in different rooms it returns false and
\* does not search.
C8_ReachableIffClearPath ==
    reachCall # Undef
        => LET c == reachCall[1]
               sameRoom == c.startPos.roomName = c.endPos.roomName
           IN  /\ c.result <=> /\ sameRoom
                               /\ ~c.answer.incomplete
                               /\ ~CrossesObstacle(c)
               /\ c.searched <=> sameRoom
               /\ ~sameRoom => ~c.result

\* C8 witness: a call within one room whose search was complete over a path
\* that crosses an obstacle, and which returned false.
C8_Witness ==
    /\ reachCall # Undef
    /\ reachCall[1].startPos.roomName = reachCall[1].endPos.roomName
    /\ reachCall[1].searched
    /\ ~reachCall[1].answer.incomplete
    /\ CrossesObstacle(reachCall[1])
    /\ ~reachCall[1].result

\* C11: an invocation of findPath that called findRoute when the map has no
\* route searched with no allowed set (so the room callback turns no room
\* down for being outside one) and its result is the oracle's answer to
\* that unrestricted search; when the map has a route it searched with the
\* origin, the destination and exactly the rooms of the route.
C11_NoRouteUnrestricted ==
    \A s \in Invocations :
        s.routeCall # Undef
            => LET rc == s.routeCall[1]
                   route == MapFindRoute(rc.origin, rc.destination, rc.options)
               IN  /\ route = Undef
                       => /\ s.allowedRooms = Undef
                          /\ s.ret = UnrestrictedAnswer
                          /\ \A roomName \in RoomNames :
                                 ShouldAvoid(roomName)
                                 \/ RoomCallback(cache, roomName, origin,
                                                 destination, s.allowedRooms,
                                                 s.options).kind # "false"
                   /\ route # Undef
                       => s.allowedRooms
                              = Some({rc.origin, rc.destination}
                                     \cup {route[1][i] : i \in DOMAIN route[1]})

\* C11 witness: findPath called findRoute for rooms 3 apart, the map had no
\* route, and the call returned the answer of the unrestricted search.
C11_Witness ==
    \E i \in DOMAIN callLog :
        /\ callLog[i].searches[1].routeCall # Undef
        /\ callLog[i].searches[1].roomDistance = 3
        /\ MapFindRoute(origin.roomName, destination.roomName,
                        callLog[i].searches[1].options) = Undef
        /\ callLog[i].searches[1].allowedRooms = Undef
        /\ callLog[i].ret = UnrestrictedAnswer

\* Whether the avoid flag bars a room from a call with these options and
\* endpoint rooms.
Barred(roomName, options, ends) ==
    /\ roomName \in avoid
    /\ ~TruthyB(options.allowHostile)
    /\ roomName \notin ends

\* C12: the room callback of findPath and the one of findFleePath return
\* false for a barred room, so they hand no matrix for one; the route
\* callback of findRoute returns +infinity for a barred room, and the set
\* findRoute returns has no barred room.
C12_AvoidedRejected ==
    matRet # Undef
        => LET c == matRet[1]
               ends == {origin.roomName, destination.roomName}
           IN  /\ c.op = "roomCallback" /\ Barred(c.roomName, c.options, ends)
                      => c.kind = "false"
               /\ c.op = "fleeCallback"
                      /\ Barred(c.roomName, c.options, {origin.roomName})
                      => c.kind = "false"
               /\ c.op = "findRoute"
                      => /\ \A roomName \in RoomNames :
                                Barred(roomName, c.options, ends)
                                    => RouteCallback(origin.roomName,
                                                     destination.roomName,
                                                     c.options, roomName).inf
                         /\ c.route # Undef
                                => \A roomName \in c.route[1] :
                                       ~Barred(roomName, c.options, ends)

\* C12 witness: the room callback was asked about an observed room inside
\* the allowed set whose avoid flag is set, and returned false.
C12_Witness ==
    /\ matRet # Undef
    /\ matRet[1].op = "roomCallback"
    /\ matRet[1].route = Undef
    /\ GameRoom(matRet[1].roomName) # Undef
    /\ Barred(matRet[1].roomName, matRet[1].options,
              {origin.roomName, destination.roomName})
    /\ matRet[1].kind = "false"

\* C16 as claimed: for an unobserved source keeper room with saved lair
\* positions and options.avoidSK, a room callback that does not turn the
\* room down returns the matrix getCostMatrixForInvisibleRoom builds.
C16_AsClaimed ==
    (/\ matRet # Undef
     /\ matRet[1].op = "roomCallback"
     /\ matRet[1].kind # "false"
     /\ GameRoom(matRet[1].roomName) = Undef
     /\ RoomType(matRet[1].roomName) = ROOMTYPE_SOURCEKEEPER
     /\ SKlairs(matRet[1].roomName) # Undef
     /\ TruthyB(matRet[1].options.avoidSK))
        => /\ matRet[1].kind = "matrix"
           /\ matRet[1].obj.m
                  = GetCostMatrixForInvisibleRoom(cache, matRet[1].roomName,
                                                  matRet[1].options, FALSE).obj.m

\* C13 as claimed: after updateRoomStatus on an observed room, the room's
\* avoid flag is set exactly when the room has a controller owned by
\* another player and at least one tower.
C13_AsClaimed ==
    matRet # Undef /\ matRet[1].op = "updateRoomStatus"
        => LET room == matRet[1].room
           IN  room.name \in avoid
                   <=> /\ room.controller # Undef
                       /\ room.controller[1].owner
                       /\ ~room.controller[1].my
                       /\ room.towers > 0

\* Whether every entry table[x][y] has x <= y in the order of the names.
KeysSorted(table) ==
    \A x \in DOMAIN table : \A y \in DOMAIN table[x] : ~NameLT(y, x)

\* C14: every entry table[x][y] of Memory.pathing.distances and of
\* Memory.pathing.weightedDistances has x <= y, so for two different names
\* at most one of table[a][b] and table[b][a] exists.
C14_KeysSorted ==
    /\ KeysSorted(distances)
    /\ KeysSorted(weightedDistances)
    /\ \A a \in MemoPositions, b \in MemoPositions :
           a # b => \/ Lookup(distances, Name(a), Name(b)) = Undef
                    \/ Lookup(distances, Name(b), Name(a)) = Undef

\* C14 witness: distance was called with the name-larger position first and
\* stored its value under the name-smaller one.
C14_Witness ==
    /\ memoCall # Undef
    /\ memoCall[1].fn = "distance"
    /\ NameLT(Name(memoCall[1].arg2), Name(memoCall[1].arg1))
    /\ memoCall[1].stored
    /\ Lookup(distances, Name(memoCall[1].arg2), Name(memoCall[1].arg1)) # Undef
    /\ Lookup(distances, Name(memoCall[1].arg1), Name(memoCall[1].arg2)) = Undef

\* C15 as claimed: once a table holds a value for a pair of positions, a
\* call for the pair in either order of the arguments returns that value,
\* makes no search and leaves the table as it is.
C15_AsClaimed ==
    \A a \in MemoPositions, b \in MemoPositions :
        LET names == SortedNames(Name(a), Name(b))
            d == Distance(distances, a, b)
            w == WeightedDistance(weightedDistances, a, b)
        IN  /\ Lookup(distances, names[1], names[2]) # Undef
                => /\ d.search = Undef
                   /\ d.table = distances
                   /\ d.value = Lookup(distances, names[1], names[2])
            /\ Lookup(weightedDistances, names[1], names[2]) # Undef
                => /\ w.search = Undef
                   /\ w.table = weightedDistances
                   /\ w.value = Lookup(weightedDistances, names[1], names[2])

\* C17 as claimed: on a room with every tile open findPathablePosition
\* returns (25, 25); on a room where (25, 25) is a wall and (24, 25) is open
\* it returns (24, 25).
C17_AsClaimed ==
    matRet # Undef /\ matRet[1].op = "findPathablePosition"
        => LET ret == matRet[1].ret
           IN  /\ openTiles = OpenFrom(0) => <<ret.x, ret.y>> = <<25, 25>>
               /\ ~IsOpen(<<25, 25>>) /\ IsOpen(<<24, 25>>)
                      => <<ret.x, ret.y>> = <<24, 25>>

\* C17 amended: on a room with every tile open findPathablePosition returns
\* (25, 25); on a room where (25, 25) and (24, 24) are walls and (24, 25) is
\* open it returns (24, 25); where (25, 25) is a wall and (24, 24) is open
\* it returns (24, 24), the first tile the scan of the first ring visits.
C17_FirstScanned ==
    matRet # Undef /\ matRet[1].op = "findPathablePosition"
        => LET ret == matRet[1].ret
           IN  /\ openTiles = OpenFrom(0) => <<ret.x, ret.y>> = <<25, 25>>
               /\ (/\ ~IsOpen(<<25, 25>>)
                   /\ ~IsOpen(<<24, 24>>)
                   /\ IsOpen(<<24, 25>>))
                      => <<ret.x, ret.y>> = <<24, 25>>
               /\ ~IsOpen(<<25, 25>>) /\ IsOpen(<<24, 24>>)
                      => <<ret.x, ret.y>> = <<24, 24>>

\* C17 witness: the centre and (24, 24) are walls, the rest of the first
\* ring is open, and the call returned (24, 25).
C17_Witness ==
    /\ matRet # Undef
    /\ matRet[1].op = "findPathablePosition"
    /\ openTiles = OnlyOpen(FirstRing \ {<<24, 24>>})
    /\ matRet[1].ret = [x |-> 24, y |-> 25, roomName |-> matRet[1].roomName]

\* C18: findPathablePosition returns the position (-10, -10) with the
\* invalid room name exactly when every tile within distance 22 of the
\* centre is a wall; otherwise it returns a tile of the room that is no
\* wall and is as near to the centre as any tile that is no wall.
C18_NearestOrSentinel ==
    matRet # Undef /\ matRet[1].op = "findPathablePosition"
        => LET ret == matRet[1].ret
               near == {t \in (3..47) \X (3..47) : IsOpen(t)}
           IN  /\ ret = [x |-> -10, y |-> -10,
                         roomName |-> CannotFindPathablePosition]
                      <=> near = {}
               /\ near # {}
                      => /\ ret.roomName = matRet[1].roomName
                         /\ IsOpen(<<ret.x, ret.y>>)
                         /\ \A t \in near :
                                FromCentre(<<ret.x, ret.y>>) <= FromCentre(t)

\* C18 witness: the only tile that is no wall lies at distance 23 of the
\* centre, and the call returned the position (-10, -10).
C18_Witness ==
    /\ matRet # Undef
    /\ matRet[1].op = "findPathablePosition"
    /\ openTiles = OnlyOpen({<<2, 25>>})
    /\ matRet[1].ret.x = -10
    /\ matRet[1].ret.roomName = CannotFindPathablePosition

\* The armed hostiles whose offsets (3, 3) and (4, 4) are tiles of the room.
InnerHostiles ==
    { i \in DOMAIN AvoidCreeps(matRoom) :
          /\ AvoidCreeps(matRoom)[i].x + 4 < GridSize
          /\ AvoidCreeps(matRoom)[i].y + 4 < GridSize }

\* The cost of the tile at offset (d, d) of a creep in a matrix.
CostAt(m, creep, d) == m[Index(creep.x + d, creep.y + d)]

\* C19 as claimed: in the kiting matrix the tile of an armed hostile costs
\* at least as much as the tile at its offset (3, 3), which costs at least
\* as much as the tile at its offset (4, 4).
C19_AsClaimed ==
    cache["kiting"] # Undef
        => \A i \in InnerHostiles :
               LET h == AvoidCreeps(matRoom)[i]
                   k == cache["kiting"][1]
               IN  /\ CostAt(k, h, 0) >= CostAt(k, h, 3)
                   /\ CostAt(k, h, 3) >= CostAt(k, h, 4)

\* C19 amended: the tile of an armed hostile costs 255, at least as much as
\* the tile at its offset (3, 3); the tile at offset (3, 3) costs at least
\* as much as the tile at offset (4, 4) when the creep matrix does not make
\* the tile at (4, 4) costlier than the one at (3, 3) and no armed hostile
\* is within 3 of the tile at (4, 4).
C19_PenaltyOverBase ==
    cache["kiting"] # Undef
        => \A i \in InnerHostiles :
               LET h == AvoidCreeps(matRoom)[i]
                   k == cache["kiting"][1]
                   c == cache["creep"][1]
               IN  /\ CostAt(k, h, 0) = IMPASSABLE
                   /\ CostAt(k, h, 0) >= CostAt(k, h, 3)
                   /\ (/\ CostAt(c, h, 4) <= CostAt(c, h, 3)
                       /\ \A j \in DOMAIN AvoidCreeps(matRoom) :
                              Max(Abs(AvoidCreeps(matRoom)[j].x - (h.x + 4)),
                                  Abs(AvoidCreeps(matRoom)[j].y - (h.y + 4))) > 3)
                          => CostAt(k, h, 3) >= CostAt(k, h, 4)

\* C19 witness: the kiting matrix is built for a room with an armed hostile
\* whose offsets (3, 3) and (4, 4) both carry a road; the tile at (3, 3)
\* costs 11, the tile at (4, 4) costs 1.
C19_Witness ==
    /\ cache["kiting"] # Undef
    /\ \E i \in InnerHostiles :
           LET h == AvoidCreeps(matRoom)[i]
           IN  /\ CostAt(cache["creep"][1], h, 3) = 1
               /\ CostAt(cache["creep"][1], h, 4) = 1
               /\ CostAt(cache["kiting"][1], h, 3) = 11
               /\ CostAt(cache["kiting"][1], h, 4) = 1

\* Whether something of a sequence stands on the tile with index t.
OnTile(things, t) == \E i \in DOMAIN things : Index(things[i].x, things[i].y) = t

\* C20: in the default matrix a tile with a structure that is not walkable
\* and is no road, or with a construction site of ours that is not
\* walkable, costs 255, road or no road on it; any other tile with a road
\* costs 1; every other tile costs 0.
C20_DefaultMatrixCosts ==
    cache["default"] # Undef
        => \A t \in Tiles :
               LET blocked ==
                       \/ OnTile(SelectSeq(matRoom.structures,
                                     LAMBDA s : s.structureType # "road"
                                                /\ ~s.isWalkable), t)
                       \/ OnTile(SelectSeq(matRoom.sites,
                                     LAMBDA s : s.my /\ ~s.isWalkable), t)
                   road == OnTile(SelectSeq(matRoom.structures,
                                      LAMBDA s : s.structureType = "road"), t)
               IN  cache["default"][1][t]
                       = IF blocked THEN IMPASSABLE ELSE IF road THEN 1 ELSE 0

\* C20 witness: the default matrix is built for a room that enumerates a
\* spawn before the road under it; the tile costs 255 and the tile of
\* another road costs 1.
C20_Witness ==
    /\ cache["default"] # Undef
    /\ \E i \in DOMAIN matRoom.structures, j \in DOMAIN matRoom.structures :
           /\ i < j
           /\ ~matRoom.structures[i].isWalkable
           /\ matRoom.structures[j].structureType = "road"
           /\ matRoom.structures[i].x = matRoom.structures[j].x
           /\ matRoom.structures[i].y = matRoom.structures[j].y
           /\ cache["default"][1][Index(matRoom.structures[i].x,
                                        matRoom.structures[i].y)] = IMPASSABLE
    /\ \E t \in Tiles : cache["default"][1][t] = 1

\* The cache slot of the variant getCostMatrix picks for the options, if the
\* variant is a cached one.
VariantSlot(room, options) ==
    IF options.ignoreCreeps = Some(FALSE) THEN Some("creep")
    ELSE IF TruthyB(options.avoidSK)
    THEN IF RoomType(room.name) = ROOMTYPE_SOURCEKEEPER
         THEN Some("sk") ELSE Some("default")
    ELSE IF TruthyB(options.ignoreStructures) THEN Undef
    ELSE IF TruthyB(options.direct) THEN Some("direct")
    ELSE Some("default")

\* C21: every slot of the room's cache has held at most one object,
\* whatever requests came before; a request for a variant that hands out the
\* cached matrix itself (no clone, no obstacles; the kiting callback) returns
\* the one object the variant's slot holds.
C21_BuiltOnce ==
    /\ \A slot \in Slots : Assigned(cache, slot) <= 1
    /\ (/\ matRet # Undef
        /\ matRet[1].op = "getCostMatrix"
        /\ ~matRet[1].clone
        /\ NoObstacles(matRet[1].options)
        /\ VariantSlot(matRoom, matRet[1].options) # Undef)
           => LET slot == VariantSlot(matRoom, matRet[1].options)[1]
              IN  /\ matRet[1].obj.slots = {slot}
                  /\ cache[slot] = <<matRet[1].obj.m, 1>>
    /\ (/\ matRet # Undef
        /\ matRet[1].op = "kitingRoomCallback"
        /\ matRet[1].kind = "matrix")
           => /\ matRet[1].obj.slots = {"kiting"}
              /\ cache["kiting"] = <<matRet[1].obj.m, 1>>

\* C21 witness: with the creep, the default and the kiting matrix cached
\* (the kiting build asked for the creep matrix, the creep build for the
\* default one), the creep matrix is requested without clone and the
\* cached object is what comes back.
C21_Witness ==
    /\ cache["kiting"] # Undef
    /\ cache["creep"] # Undef
    /\ cache["default"] # Undef
    /\ matRet # Undef
    /\ matRet[1].op = "getCostMatrix"
    /\ ~matRet[1].clone
    /\ matRet[1].options = [NoOptions EXCEPT !.ignoreCreeps = Some(FALSE)]
    /\ matRet[1].obj.slots = {"creep"}

\* The position before the i-th of the path.
Predecessor(startPos, path, i) == IF i = 1 THEN startPos ELSE path[i - 1]

\* The indices of the path's positions that lie in the room of their
\* predecessor.
SameRoomSteps(startPos, path) ==
    {i \in DOMAIN path :
         path[i].roomName = Predecessor(startPos, path, i).roomName}

\* C22: the string serializePath returns has one character for every
\* position of the path that lies in the room of its predecessor and none
\* for the others: its k-th character is the digit 1..8 of the direction
\* from the predecessor to the k-th such position.
C22_OneDigitPerStep ==
    serialized.ret # Undef
        => LET c == serialized
               steps == SameRoomSteps(c.startPos, c.path)
           IN  /\ Len(c.ret[1]) = Cardinality(steps)
               /\ \A i \in steps :
                      LET k == Cardinality({j \in steps : j <= i})
                          d == GetDirectionTo(
                                   Predecessor(c.startPos, c.path, i), c.path[i])
                      IN  /\ d \in 1..8
                          /\ c.ret[1][k]
                                 = <<"1", "2", "3", "4", "5", "6", "7", "8">>[d]

\* C22 witness: a path of three positions that leaves the start's room with
\* its second position and goes on in the other room is serialized to two
\* characters.
C22_Witness ==
    /\ serialized.ret # Undef
    /\ Len(serialized.path) = 3
    /\ serialized.path[1].roomName = serialized.startPos.roomName
    /\ serialized.path[2].roomName # serialized.path[1].roomName
    /\ serialized.path[3].roomName = serialized.path[2].roomName
    /\ Len(serialized.ret[1]) = 2

\* C23 as claimed: a matrix getCostMatrix returns for a source keeper room
\* when asked with avoidSK costs 255 on every tile of the room within
\* distance 5 of a keeper lair, whatever the other options are.
C23_AsClaimed ==
    (/\ matRet # Undef
     /\ matRet[1].op = "getCostMatrix"
     /\ ~matRet[1].mutated
     /\ TruthyB(matRet[1].options.avoidSK)
     /\ RoomType(matRoom.name) = ROOMTYPE_SOURCEKEEPER)
        => \A i \in DOMAIN KeeperLairs(matRoom) :
           \A x \in 0..(GridSize - 1), y \in 0..(GridSize - 1) :
               LET lair == KeeperLairs(matRoom)[i]
               IN  Max(Abs(x - lair.x), Abs(y - lair.y)) <= 5
                       => matRet[1].obj.m[Index(x, y)] = IMPASSABLE

\* What a findPath call asked of the route restrictor and of the oracle:
\* for each of its searches, whether findRoute was called, the allowed
\* rooms of the search and the oracle's answer.
Asked(c) ==
    [k \in DOMAIN c.searches |->
        [routed |-> c.searches[k].routeCall # Undef,
         allowedRooms |-> c.searches[k].allowedRooms,
         ret |-> c.searches[k].ret]]

\* C24 as claimed: a findPath call made again with the same options object
\* and the same endpoints asks the same of the route restrictor and of the
\* oracle as the first call did, retries as the first call did, and returns
\* the same result.
C24_AsClaimed ==
    \A i \in DOMAIN callLog :
        /\ Asked(callLog[i]) = Asked(callLog[1])
        /\ callLog[i].ret = callLog[1].ret

====
